---- MODULE Spec2Model ----
(***************************************************************************)
(* Model of src/main.py: the output store (the module-level list           *)
(* `outputs`), the control_logic thread that recomputes every output's     *)
(* status once per second, and the Flask request handlers that write the   *)
(* store.                                                                  *)
(*                                                                         *)
(* Time is counted in whole seconds of local time.  A Python str is a      *)
(* tuple of code points ("08:00" is <<48,56,58,48,48>>), so that the       *)
(* comparisons of control_logic are Python's lexicographic comparisons.    *)
(***************************************************************************)
EXTENDS Integers, Sequences, FiniteSets, TLC

VARIABLES
    outputs,        \* the global list `outputs` (main.py:19), a sequence of records
    inputs,         \* the global list `inputs` (main.py:20)
    sensor_values,  \* the global dict `sensor_values` (main.py:21)
    outputs_file,   \* the content of outputs.json
    inputs_file,    \* the content of inputs.json: [value, names]
    now,            \* the wall clock: time.time() / datetime.now()
    ctl,            \* the control_logic thread: "running", or "dead" once an exception ended it
    ev,             \* the locals of control_logic while a pass is in progress
    requests,       \* the number of writing HTTP requests (PUT, POST) served so far
    upd,            \* the locals of an update_output call in progress
    sim,            \* the statement the sensor_simulator thread is at
    disk,           \* "ok", or "readonly" while the JSON files cannot be written
    sensors_file,   \* the content of sensors.json
    view,           \* the page's currentOutput.scheduledPrograms (main.py:811)
    last            \* history: the operation that made the last step, and the state it started from

vars == <<outputs, inputs, sensor_values, outputs_file, inputs_file, now, ctl, ev, requests,
          upd, sim, disk, sensors_file, view, last>>

\* What control_logic and the request handlers served one at a time leave alone.
others == <<upd, sim, disk, sensors_file, view>>

(***************************************************************************)
(* Bounds of the model.                                                    *)
(***************************************************************************)
\* The code creates six outputs (range(1, 7)); the model keeps the first NumOutputs.
NumOutputs == 2
\* The code creates six inputs (range(6)); the model keeps the first NumInputs.
NumInputs == 2
\* The number of rounds of sensor_simulator a run follows.
MaxRounds == 2

\* The number of writing HTTP requests (PUT, POST) a run serves.
MaxRequests == 2

OutputIds == 1..NumOutputs

(***************************************************************************)
(* Python strings and the clock.                                           *)
(***************************************************************************)
Str(h1, h2, m1, m2) == <<48 + h1, 48 + h2, 58, 48 + m1, 48 + m2>>

MinOf(a, b) == IF a <= b THEN a ELSE b

\* str.__lt__: the first differing code point decides; a proper prefix is smaller.
StrLt(a, b) ==
    \E k \in 1..(MinOf(Len(a), Len(b)) + 1) :
        /\ \A j \in 1..(k - 1) : a[j] = b[j]
        /\ \/ k > Len(a) /\ k <= Len(b)
           \/ k <= Len(a) /\ k <= Len(b) /\ a[k] < b[k]

StrLe(a, b) == a = b \/ StrLt(a, b)

\* datetime.now().strftime('%H:%M') of the clock value t.
FormatHHMM(t) ==
    LET h == (t \div 3600) % 24
        m == (t \div 60) % 60
    IN  <<48 + (h \div 10), 48 + (h % 10), 58, 48 + (m \div 10), 48 + (m % 10)>>

\* Python's a % b for numbers: the result has the sign of b.
PyMod(a, b) == IF b > 0 THEN a % b ELSE -((-a) % (-b))

\* The clock value when the process starts (07:59:30), and the instants the
\* clock is observed at.
T0 == 7 * 3600 + 59 * 60 + 30
ClockPoints == {T0, T0 + 30, T0 + 90, T0 + 150, 17 * 3600 + 59 * 60, 18 * 3600}

(***************************************************************************)
(* The output record of init_json_files.                                   *)
(***************************************************************************)
DefaultPeriodic == [onDuration |-> 60, offDuration |-> 60]
DefaultSensor == [type |-> "temperature", threshold |-> 25, action |-> "on"]

DefaultOutput(i, t) ==
    [id |-> i, name |-> <<"Output", i>>, status |-> FALSE, mode |-> "manual",
     manualOverride |-> FALSE, periodicConfig |-> DefaultPeriodic,
     scheduledPrograms |-> <<>>, sensorConfig |-> DefaultSensor, lastToggle |-> t]

DefaultOutputs(t) == [i \in OutputIds |-> DefaultOutput(i, t)]

DefaultInputs == [i \in 1..NumInputs |-> [id |-> i, name |-> <<"Input", i>>, status |-> FALSE]]

DefaultSensors == [temperature |-> 22, humidity |-> 45]

(***************************************************************************)
(* inputs.json: the statuses packed into one integer, bit i for the input  *)
(* at list position i (counted from 0), and the list of names.             *)
(***************************************************************************)
RECURSIVE Pow2(_)
Pow2(n) == IF n = 0 THEN 1 ELSE 2 * Pow2(n - 1)

RECURSIVE PackFrom(_, _)
PackFrom(inps, k) ==
    IF k > Len(inps) THEN 0
    ELSE (IF inps[k].status THEN Pow2(k - 1) ELSE 0) + PackFrom(inps, k + 1)

\* save_inputs, lines 97-116
SaveInputs(inps) ==
    [value |-> PackFrom(inps, 1), names |-> [k \in 1..Len(inps) |-> inps[k].name]]

\* The load that takes an input for ON when any bit from its own upwards is set.
LoadInputsUnmasked(data) ==
    [i \in 1..NumInputs |->
        [id |-> i,
         name |-> IF i <= Len(data.names) THEN data.names[i] ELSE <<"Input", i>>,
         status |-> data.value \div Pow2(i - 1) >= 1]]

\* load_inputs, lines 76-95: bit i of `value` is the status of input i + 1; a
\* missing name becomes 'Input <id>'.
LoadInputs(data) ==
    [i \in 1..NumInputs |->
        [id |-> i,
         name |-> IF i <= Len(data.names) THEN data.names[i] ELSE <<"Input", i>>,
         status |-> (data.value \div Pow2(i - 1)) % 2 = 1]]

\* The locals of control_logic between two passes.
Idle == [pc |-> "sleep", i |-> 0, old_status |-> FALSE, computed |-> FALSE,
         modified |-> FALSE, t |-> 0]

(***************************************************************************)
(* control_logic: the evaluation of one output.  The result is the new     *)
(* status, or `raised` when the statement raises (a ZeroDivisionError of   *)
(* `%`, a KeyError of a dict lookup).                                      *)
(***************************************************************************)
Raised == [raised |-> TRUE, status |-> FALSE]
Computed(b) == [raised |-> FALSE, status |-> b]

\* lines 150-155
PeriodicStatus(o, t) ==
    LET config == o.periodicConfig
        cycle_time == config.onDuration + config.offDuration
        elapsed == t - o.lastToggle
    IN  IF cycle_time = 0 THEN Raised
        ELSE Computed(PyMod(elapsed, cycle_time) < config.onDuration)

\* lines 158-163: the loop over the programs, from program k on.  The chained
\* comparison reads program['onTime'] first and program['offTime'] only when
\* onTime <= current_time_str; the first match ends the loop.
RECURSIVE ScheduledFrom(_, _, _)
ScheduledFrom(programs, k, tstr) ==
    IF k > Len(programs) THEN Computed(FALSE)
    ELSE LET program == programs[k]
         IN  IF "onTime" \notin DOMAIN program THEN Raised
             ELSE IF ~StrLe(program.onTime, tstr) THEN ScheduledFrom(programs, k + 1, tstr)
             ELSE IF "offTime" \notin DOMAIN program THEN Raised
             ELSE IF StrLt(tstr, program.offTime) THEN Computed(TRUE)
             ELSE ScheduledFrom(programs, k + 1, tstr)

ScheduledStatus(o, tstr) == ScheduledFrom(o.scheduledPrograms, 1, tstr)

\* lines 165-169
SensorStatus(o, sv) ==
    LET config == o.sensorConfig
    IN  IF config.type \notin DOMAIN sv THEN Raised
        ELSE LET threshold_met == sv[config.type] < config.threshold
             IN  Computed(IF config.action = "on" THEN threshold_met ELSE ~threshold_met)

\* The branch with a final `else: raise` for the modes it does not know.
ModeStatusUnknownRaises(o, t, tstr, sv) ==
    IF o.mode = "periodic" THEN PeriodicStatus(o, t)
    ELSE IF o.mode = "scheduled" THEN ScheduledStatus(o, tstr)
    ELSE IF o.mode = "sensor" THEN SensorStatus(o, sv)
    ELSE IF o.mode = "manual" THEN Computed(o.status)
    ELSE Raised

\* The branch with manual mode switching the output off.
ModeStatusManualOff(o, t, tstr, sv) ==
    IF o.mode = "periodic" THEN PeriodicStatus(o, t)
    ELSE IF o.mode = "scheduled" THEN ScheduledStatus(o, tstr)
    ELSE IF o.mode = "sensor" THEN SensorStatus(o, sv)
    ELSE IF o.mode = "manual" THEN Computed(FALSE)
    ELSE Computed(o.status)

\* lines 150-169: the branch on the mode of a non-overridden output.
ModeStatus(o, t, tstr, sv) ==
    IF o.mode = "periodic" THEN PeriodicStatus(o, t)
    ELSE IF o.mode = "scheduled" THEN ScheduledStatus(o, tstr)
    ELSE IF o.mode = "sensor" THEN SensorStatus(o, sv)
    ELSE Computed(o.status)

\* The override honoured for manual-mode outputs only.
SkippedManualOnly(o) == o.manualOverride /\ o.mode = "manual"

\* lines 145-146: the override check.
Skipped(o) == o.manualOverride

\* lines 144-172: the loop body for one output.
EvalOutput(o, t, tstr, sv) ==
    IF Skipped(o) THEN Computed(o.status) ELSE ModeStatus(o, t, tstr, sv)

\* The loop with a write of the status that also sets lastToggle to the time
\* of the pass when the status changes.
RECURSIVE PassFromResetting(_, _, _, _, _, _)
PassFromResetting(outs, i, modified, t, tstr, sv) ==
    IF i > Len(outs) THEN [outs |-> outs, modified |-> modified, raised |-> FALSE, at |-> 0]
    ELSE LET r == EvalOutput(outs[i], t, tstr, sv)
         IN  IF r.raised
             THEN [outs |-> outs, modified |-> modified, raised |-> TRUE, at |-> i]
             ELSE PassFromResetting(
                      [outs EXCEPT ![i].status = r.status,
                                   ![i].lastToggle = IF outs[i].status # r.status THEN t ELSE @],
                      i + 1, modified \/ (outs[i].status # r.status), t, tstr, sv)

\* lines 142-172: the loop over the outputs, from output i on.  An exception
\* leaves the outputs before i as written and the rest untouched.
RECURSIVE PassFrom(_, _, _, _, _, _)
PassFrom(outs, i, modified, t, tstr, sv) ==
    IF i > Len(outs) THEN [outs |-> outs, modified |-> modified, raised |-> FALSE, at |-> 0]
    ELSE LET r == EvalOutput(outs[i], t, tstr, sv)
         IN  IF r.raised
             THEN [outs |-> outs, modified |-> modified, raised |-> TRUE, at |-> i]
             ELSE PassFrom([outs EXCEPT ![i].status = r.status], i + 1,
                           modified \/ (outs[i].status # r.status), t, tstr, sv)

NoData == [none |-> TRUE]

\* The page has opened no configuration dialog: currentOutput is null.
NoView == [id |-> 0, programs |-> <<>>]

\* sensor_simulator sleeps and has completed no round yet.
NoSim == [pc |-> "sleep", rounds |-> 0]

\* No update_output call is in progress.
NoUpdate == [pc |-> "idle", i |-> 0, id |-> 0, data |-> NoData, bound |-> TRUE, rec |-> NoData]

Hist(op, id, data, ret, saved) ==
    [op |-> op, id |-> id, data |-> data, ret |-> ret, saved |-> saved,
     pre |-> outputs, pin |-> inputs, t |-> now, sv |-> sensor_values, upd |-> upd]

\* save_outputs, lines 127-133: the dump of the list, or nothing when open()
\* or the write raises (the exception is caught and printed).
SaveOutputs(outs) == IF disk = "ok" THEN outs ELSE outputs_file

\* lines 137-177: one iteration of the while loop of control_logic.  An
\* exception is not caught anywhere, so it ends the thread.
EvaluatePass ==
    /\ UNCHANGED others
    /\ ctl = "running"
    /\ LET p == PassFrom(outputs, 1, FALSE, now, FormatHHMM(now), sensor_values)
           saved == p.modified /\ ~p.raised
       IN  /\ outputs' = p.outs
           /\ outputs_file' = IF saved THEN SaveOutputs(p.outs) ELSE outputs_file
           /\ ctl' = IF p.raised THEN "dead" ELSE "running"
           /\ last' = Hist("evaluate", p.at, NoData, IF p.raised THEN "raised" ELSE "ok", saved)
    /\ UNCHANGED <<inputs, sensor_values, inputs_file, now, ev, requests>>

\* The clock moves on to a later instant.
Advance(points) ==
    /\ UNCHANGED others
    /\ \E t \in points : t > now /\ now' = t
    /\ last' = Hist("tick", 0, NoData, "ok", FALSE)
    /\ UNCHANGED <<outputs, inputs, sensor_values, outputs_file, inputs_file, ctl, ev, requests>>

Tick == Advance(ClockPoints)

(***************************************************************************)
(* The state after the module is loaded with no JSON file present          *)
(* (init_json_files, load_sensors, load_inputs, load_outputs).             *)
(***************************************************************************)
NoHist == [op |-> "init", id |-> 0, data |-> NoData, ret |-> "ok", saved |-> FALSE,
           pre |-> DefaultOutputs(T0), pin |-> DefaultInputs, t |-> T0, sv |-> DefaultSensors,
           upd |-> NoUpdate]

Init ==
    /\ outputs = DefaultOutputs(T0)
    /\ inputs = DefaultInputs
    /\ sensor_values = DefaultSensors
    /\ outputs_file = outputs
    /\ inputs_file = SaveInputs(inputs)
    /\ now = T0
    /\ ctl = "running"
    /\ ev = Idle
    /\ requests = 0
    /\ upd = NoUpdate
    /\ sim = NoSim
    /\ disk = "ok"
    /\ sensors_file = sensor_values
    /\ view = NoView
    /\ last = NoHist

(***************************************************************************)
(* Evaluation of stored configurations.  The store starts in a             *)
(* configuration that PUT /api/outputs/<id> requests (or an existing       *)
(* outputs.json) leave behind; from there only the clock moves and         *)
(* control_logic runs.                                                     *)
(***************************************************************************)
Program(n, on, off) == [number |-> n, onTime |-> on, offTime |-> off]

Periodic(on, off, anchor) ==
    [mode |-> "periodic", periodicConfig |-> [onDuration |-> on, offDuration |-> off],
     lastToggle |-> anchor]
Scheduled(programs) == [mode |-> "scheduled", scheduledPrograms |-> programs]
Sensor(type, threshold, action) ==
    [mode |-> "sensor", sensorConfig |-> [type |-> type, threshold |-> threshold, action |-> action]]

\* dict.update(data): every key of data is set, every other key is kept.
Merge(o, data) ==
    [f \in DOMAIN o \cup DOMAIN data |-> IF f \in DOMAIN data THEN data[f] ELSE o[f]]

Overridden(c) == Merge(c, [manualOverride |-> TRUE])

\* Each scenario: the configurations its outputs are drawn from, and the sensor
\* snapshots it runs under.
PeriodicFamily ==
    { Periodic(60, 60, T0), Periodic(60, 60, T0 + 200), Periodic(0, 0, T0), [mode |-> "manual"],
      Overridden(Periodic(60, 60, T0)), Overridden([mode |-> "manual"]) }
ScheduledFamily ==
    { Scheduled(<<Program(1, Str(0, 8, 0, 0), Str(1, 8, 0, 0))>>),
      Scheduled(<<Program(1, Str(1, 8, 0, 0), Str(0, 8, 0, 0)), Program(2, Str(0, 8, 0, 0), Str(0, 8, 0, 0))>>),
      Scheduled(<<Program(3, Str(1, 7, 5, 9), Str(1, 8, 0, 0)), Program(1, Str(0, 8, 0, 0), Str(0, 8, 0, 2))>>),
      Scheduled(<<>>),
      Periodic(0, 0, T0),
      Overridden(Scheduled(<<Program(1, Str(0, 8, 0, 0), Str(1, 8, 0, 0))>>)) }
SensorFamily ==
    { Sensor("temperature", 25, "on"), Sensor("temperature", 25, "off"),
      Sensor("pressure", 25, "on"), [mode |-> "auto"],
      Overridden(Sensor("temperature", 25, "on")), Overridden(Sensor("pressure", 25, "on")),
      Overridden([mode |-> "auto"]) }

SensorSnapshots == {[temperature |-> v, humidity |-> 45] : v \in {20, 25, 30}}

Scenarios ==
    { [family |-> PeriodicFamily, snapshots |-> {DefaultSensors}],
      [family |-> ScheduledFamily, snapshots |-> {DefaultSensors}],
      [family |-> SensorFamily, snapshots |-> SensorSnapshots] }

StoredOutputs(family) ==
    [OutputIds -> {Merge(DefaultOutput(0, T0), c) : c \in family}]

InitEval ==
    /\ \E sc \in Scenarios :
         /\ \E cfg \in StoredOutputs(sc.family), st \in [OutputIds -> BOOLEAN] :
              outputs = [i \in OutputIds |->
                           [cfg[i] EXCEPT !.id = i, !.name = <<"Output", i>>, !.status = st[i]]]
         /\ sensor_values \in sc.snapshots
    /\ inputs = DefaultInputs
    /\ outputs_file = outputs
    /\ inputs_file = SaveInputs(inputs)
    /\ now = T0
    /\ ctl = "running"
    /\ ev = Idle
    /\ requests = 0
    /\ upd = NoUpdate
    /\ sim = NoSim
    /\ disk = "ok"
    /\ sensors_file = sensor_values
    /\ view = NoView
    /\ last = [NoHist EXCEPT !.pre = outputs, !.sv = sensor_values]

NextEval == Tick \/ EvaluatePass

SpecEval == InitEval /\ [][NextEval]_vars

(***************************************************************************)
(* The request handlers.  Each is one step: requests are served one at a   *)
(* time here.  save_outputs() writes the whole list to outputs.json.       *)
(***************************************************************************)
\* The loop variable used after a loop that found no match: the last record.
FindOutputOrLast(outs, output_id) ==
    IF \E i \in 1..Len(outs) : outs[i].id = output_id
    THEN CHOOSE i \in 1..Len(outs) :
            outs[i].id = output_id /\ \A j \in 1..(i - 1) : outs[j].id # output_id
    ELSE Len(outs)

\* `for output in outputs: if output['id'] == output_id`: the position of the
\* first record with that id, 0 when the loop ends without a match.
FindOutput(outs, output_id) ==
    IF \E i \in 1..Len(outs) : outs[i].id = output_id
    THEN CHOOSE i \in 1..Len(outs) :
            outs[i].id = output_id /\ \A j \in 1..(i - 1) : outs[j].id # output_id
    ELSE 0

FindInput(inps, input_id) ==
    IF \E i \in 1..Len(inps) : inps[i].id = input_id
    THEN CHOOSE i \in 1..Len(inps) :
            inps[i].id = input_id /\ \A j \in 1..(i - 1) : inps[j].id # input_id
    ELSE 0

\* The reset done only when the mode given differs from the stored one.
UpdatedResetOnChange(o, data, t) ==
    LET merged == Merge(o, data)
    IN  IF "mode" \in DOMAIN data /\ data.mode # o.mode
        THEN [merged EXCEPT !.lastToggle = t] ELSE merged

\* The merge alone, the reset of lastToggle left out.
UpdatedMergeOnly(o, data, t) == Merge(o, data)

\* The update that also releases the override when the body does not name it.
UpdatedReleasing(o, data, t) ==
    LET merged == Merge(o, data)
        released == IF "manualOverride" \in DOMAIN data THEN merged
                    ELSE [merged EXCEPT !.manualOverride = FALSE]
    IN  IF "mode" \in DOMAIN data THEN [released EXCEPT !.lastToggle = t] ELSE released

\* update_output, lines 215-217: the merge, then the reset of lastToggle.
Updated(o, data, t) ==
    LET merged == Merge(o, data)
    IN  IF "mode" \in DOMAIN data THEN [merged EXCEPT !.lastToggle = t] ELSE merged

\* The toggle that leaves the mode as it is.
ToggledKeepingMode(o) == [o EXCEPT !.status = ~@, !.manualOverride = TRUE]

\* toggle_output, lines 226-228
Toggled(o) == [o EXCEPT !.status = ~@, !.manualOverride = TRUE, !.mode = "manual"]

\* The override-toggle that only ever sets the flag.
OverrideSet(o) == [o EXCEPT !.manualOverride = TRUE]

\* toggle_override, line 237
OverrideToggled(o) == [o EXCEPT !.manualOverride = ~@]

\* A handler that found record i writes it and saves; one that found none
\* returns 404 and touches nothing.
WriteOutput(op, output_id, data, i, o) ==
    /\ UNCHANGED others
    /\ requests < MaxRequests
    /\ requests' = requests + 1
    /\ IF i = 0
       THEN /\ UNCHANGED <<outputs, outputs_file>>
            /\ last' = Hist(op, output_id, data, "notfound", FALSE)
       ELSE /\ outputs' = [outputs EXCEPT ![i] = o]
            /\ outputs_file' = SaveOutputs(outputs')
            /\ last' = Hist(op, output_id, data, "ok", TRUE)
    /\ UNCHANGED <<inputs, sensor_values, inputs_file, now, ctl, ev>>

\* PUT /api/outputs/<id>, lines 210-220
UpdateOutput(output_id, data) ==
    LET i == FindOutput(outputs, output_id)
    IN  WriteOutput("update", output_id, data, i,
                    IF i = 0 THEN NoData ELSE Updated(outputs[i], data, now))

\* POST /api/outputs/<id>/toggle, lines 222-231
ToggleOutput(output_id) ==
    LET i == FindOutput(outputs, output_id)
    IN  WriteOutput("toggle", output_id, NoData, i,
                    IF i = 0 THEN NoData ELSE Toggled(outputs[i]))

\* POST /api/outputs/<id>/override, lines 233-240
ToggleOverride(output_id) ==
    LET i == FindOutput(outputs, output_id)
    IN  WriteOutput("override", output_id, NoData, i,
                    IF i = 0 THEN NoData ELSE OverrideToggled(outputs[i]))

\* PUT /api/inputs/<id>, lines 247-255
UpdateInput(input_id, data) ==
    /\ UNCHANGED others
    /\ requests < MaxRequests
    /\ requests' = requests + 1
    /\ LET i == FindInput(inputs, input_id)
       IN  IF i = 0
           THEN /\ UNCHANGED <<inputs, inputs_file>>
                /\ last' = Hist("update_input", input_id, data, "notfound", FALSE)
           ELSE /\ inputs' = [inputs EXCEPT ![i] = Merge(@, data)]
                /\ inputs_file' = SaveInputs(inputs')
                /\ last' = Hist("update_input", input_id, data, "ok", TRUE)
    /\ UNCHANGED <<outputs, sensor_values, outputs_file, now, ctl, ev>>

\* The bodies the clients send: changeMode, forceOutput, savePeriodicConfig and
\* updateOutputName of the page, and raw PUT requests.
OutputPayloads ==
    { [mode |-> "periodic", manualOverride |-> FALSE],
      [mode |-> "sensor", manualOverride |-> FALSE],
      [mode |-> "periodic"],
      [mode |-> "periodic", lastToggle |-> 0],
      [lastToggle |-> 0],
      [status |-> TRUE],
      [periodicConfig |-> [onDuration |-> 0, offDuration |-> 0]],
      [name |-> <<"Pump">>] }

InputPayloads == { [name |-> <<"Door">>], [status |-> TRUE] }

\* The ids requests carry: those of the records, and one no record carries.
UnknownIds == {999}

RequestIds == OutputIds \cup UnknownIds

ApiClockPoints == {T0, T0 + 30, T0 + 90}

TickApi == Advance(ApiClockPoints)

Update == \E output_id \in RequestIds, data \in OutputPayloads : UpdateOutput(output_id, data)
Toggle == \E output_id \in RequestIds : ToggleOutput(output_id)
Override == \E output_id \in RequestIds : ToggleOverride(output_id)
InputUpdate ==
    \E input_id \in (1..NumInputs) \cup UnknownIds, data \in InputPayloads :
        UpdateInput(input_id, data)

NextApi == TickApi \/ EvaluatePass \/ Update \/ Toggle \/ Override \/ InputUpdate

SpecApi == Init /\ [][NextApi]_vars

(***************************************************************************)
(* Reads of the store, raw PUT bodies, and the schedule dialog of the      *)
(* page.  update_output stores whatever body it is sent.                   *)
(***************************************************************************)
\* load_outputs, lines 118-125: `outputs` is bound to a new list read from
\* outputs.json; a handler that holds a record of the old list keeps it.
Unbound(u) ==
    IF u.pc # "idle" /\ u.bound THEN [u EXCEPT !.bound = FALSE, !.rec = outputs[u.i]] ELSE u

\* GET /api/outputs, lines 205-208
GetOutputs ==
    /\ outputs' = outputs_file
    /\ upd' = Unbound(upd)
    /\ last' = Hist("get_outputs", 0, NoData, "ok", FALSE)
    /\ UNCHANGED <<inputs, sensor_values, outputs_file, inputs_file, now, ctl, ev, requests,
                   sim, disk, sensors_file, view>>

\* `if (currentOutput.scheduledPrograms.length >= 20)`, line 919
MaxPrograms == 20

ProgramList(n) == [k \in 1..n |-> Program(k, Str(0, 8, 0, 0), Str(1, 8, 0, 0))]

\* openConfig, lines 807-812: GET /api/outputs, then currentOutput is the
\* record with the id of the card.
OpenConfig(output_id) ==
    /\ outputs' = outputs_file
    /\ upd' = Unbound(upd)
    /\ LET i == FindOutput(outputs', output_id)
       IN  /\ i # 0
           /\ view' = [id |-> output_id, programs |-> outputs'[i].scheduledPrograms]
    /\ last' = Hist("open_config", output_id, NoData, "ok", FALSE)
    /\ UNCHANGED <<inputs, sensor_values, outputs_file, inputs_file, now, ctl, ev, requests,
                   sim, disk, sensors_file>>

\* addScheduledProgram, lines 915-931: the length check on the page's copy of
\* the list, the PUT of the copy with the new program appended, and the
\* dialog opened again on the stored record.
AddScheduledProgram(program) ==
    /\ view.id # 0
    /\ Len(view.programs) < MaxPrograms
    /\ requests < MaxRequests
    /\ requests' = requests + 1
    /\ LET programs == Append(view.programs, program)
           data == [scheduledPrograms |-> programs]
           i == FindOutput(outputs, view.id)
       IN  /\ i # 0
           /\ outputs' = [outputs EXCEPT ![i] = Updated(@, data, now)]
           /\ outputs_file' = SaveOutputs(outputs')
           /\ view' = [view EXCEPT !.programs = outputs_file'[i].scheduledPrograms]
           /\ last' = Hist("add_program", view.id, data, "ok", TRUE)
    /\ UNCHANGED <<inputs, sensor_values, inputs_file, now, ctl, ev, upd, sim, disk, sensors_file>>

\* Bodies of raw PUT requests: an id, a program whose onTime is "8:00", a
\* program without offTime, a list of 20 and a list of 21 programs.
RawPayloads ==
    { [id |-> 2],
      [mode |-> "scheduled"],
      [scheduledPrograms |-> <<Program(1, <<56, 58, 48, 48>>, Str(1, 8, 0, 0))>>],
      [scheduledPrograms |-> <<[number |-> 1, onTime |-> Str(0, 7, 0, 0)]>>],
      [scheduledPrograms |-> ProgramList(MaxPrograms)],
      [scheduledPrograms |-> ProgramList(MaxPrograms + 1)] }

UpdateRaw == \E output_id \in OutputIds, data \in RawPayloads : UpdateOutput(output_id, data)
Open == \E output_id \in OutputIds : OpenConfig(output_id)
Add == AddScheduledProgram(Program(2, Str(0, 9, 0, 0), Str(1, 0, 0, 0)))

\* The store after the page has added no, 19 or 20 programs to output 1.
InitRaw ==
    /\ \E n \in {0, MaxPrograms - 1, MaxPrograms} :
          outputs = [DefaultOutputs(T0) EXCEPT ![1].scheduledPrograms = ProgramList(n)]
    /\ inputs = DefaultInputs
    /\ sensor_values = DefaultSensors
    /\ outputs_file = outputs
    /\ inputs_file = SaveInputs(inputs)
    /\ now = T0
    /\ ctl = "running"
    /\ ev = Idle
    /\ requests = 0
    /\ upd = NoUpdate
    /\ sim = NoSim
    /\ disk = "ok"
    /\ sensors_file = sensor_values
    /\ view = NoView
    /\ last = [NoHist EXCEPT !.pre = outputs]

NextRaw == EvaluatePass \/ UpdateRaw \/ Open \/ Add \/ GetOutputs

SpecRaw == InitRaw /\ [][NextRaw]_vars


(***************************************************************************)
(* control_logic statement by statement, interleaved with the request      *)
(* threads.  No lock guards `outputs` anywhere in main.py, so a request    *)
(* may run between any two statements of the loop body.                    *)
(***************************************************************************)
\* lines 139-142: a pass starts; current_time_str is fixed for the whole pass.
EvBegin ==
    /\ UNCHANGED others
    /\ ctl = "running" /\ ev.pc = "sleep"
    /\ ev' = [Idle EXCEPT !.pc = "check", !.i = 1, !.t = now]
    /\ UNCHANGED <<outputs, inputs, sensor_values, outputs_file, inputs_file, now, ctl,
                   requests, last>>

\* lines 144-148: the next output, its override check, and old_status.
EvCheck ==
    /\ UNCHANGED others
    /\ ev.pc = "check"
    /\ ev' = IF ev.i > Len(outputs) THEN [ev EXCEPT !.pc = "save"]
             ELSE IF Skipped(outputs[ev.i]) THEN [ev EXCEPT !.i = @ + 1]
             ELSE [ev EXCEPT !.pc = "branch", !.old_status = outputs[ev.i].status]
    /\ UNCHANGED <<outputs, inputs, sensor_values, outputs_file, inputs_file, now, ctl,
                   requests, last>>

\* lines 150-154, 157-162, 165-168: the mode is read and the new status
\* computed (time.time() is read here); an exception ends the thread.
EvBranch ==
    /\ UNCHANGED others
    /\ ev.pc = "branch"
    /\ LET o == outputs[ev.i]
           r == ModeStatus(o, now, FormatHHMM(ev.t), sensor_values)
       IN  IF r.raised
           THEN /\ ctl' = "dead"
                /\ ev' = Idle
                /\ last' = Hist("evaluate", ev.i, NoData, "raised", FALSE)
           ELSE /\ ev' = IF o.mode \in {"periodic", "scheduled", "sensor"}
                         THEN [ev EXCEPT !.pc = "write", !.computed = r.status]
                         ELSE [ev EXCEPT !.pc = "compare"]
                /\ last' = Hist("ev_compute", ev.i, NoData, "ok", FALSE)
                /\ UNCHANGED ctl
    /\ UNCHANGED <<outputs, inputs, sensor_values, outputs_file, inputs_file, now, requests>>

\* lines 155, 163, 169: output['status'] = ...
EvWrite ==
    /\ UNCHANGED others
    /\ ev.pc = "write"
    /\ outputs' = [outputs EXCEPT ![ev.i].status = ev.computed]
    /\ ev' = [ev EXCEPT !.pc = "compare"]
    /\ last' = Hist("ev_write", ev.i, NoData, "ok", FALSE)
    /\ UNCHANGED <<inputs, sensor_values, outputs_file, inputs_file, now, ctl, requests>>

\* lines 171-172: output['status'] is read again and compared with old_status.
EvCompare ==
    /\ UNCHANGED others
    /\ ev.pc = "compare"
    /\ ev' = [ev EXCEPT !.pc = "check", !.i = @ + 1,
                        !.modified = @ \/ (ev.old_status # outputs[ev.i].status)]
    /\ UNCHANGED <<outputs, inputs, sensor_values, outputs_file, inputs_file, now, ctl,
                   requests, last>>

\* lines 174-177: the save, then the sleep.
EvSave ==
    /\ UNCHANGED others
    /\ ev.pc = "save"
    /\ outputs_file' = IF ev.modified THEN SaveOutputs(outputs) ELSE outputs_file
    /\ ev' = Idle
    /\ last' = Hist("evaluate", 0, NoData, "ok", ev.modified)
    /\ UNCHANGED <<outputs, inputs, sensor_values, inputs_file, now, ctl, requests>>

ConcPayloads == { [mode |-> "periodic", manualOverride |-> FALSE], [status |-> TRUE] }

UpdateConc == \E output_id \in OutputIds, data \in ConcPayloads : UpdateOutput(output_id, data)
ToggleConc == \E output_id \in OutputIds : ToggleOutput(output_id)
OverrideConc == \E output_id \in OutputIds : ToggleOverride(output_id)

(***************************************************************************)
(* update_output statement by statement.  The handler holds `output`, a    *)
(* reference to a record of the list that `outputs` named when its loop    *)
(* found the id; upd.bound tells whether `outputs` still names that list.  *)
(***************************************************************************)
\* lines 212-214 (and 220): the body is read and the loop looks for the id.
UpdFind(output_id, data) ==
    /\ upd.pc = "idle"
    /\ requests < MaxRequests
    /\ requests' = requests + 1
    /\ LET i == FindOutput(outputs, output_id)
       IN  IF i = 0
           THEN /\ upd' = upd
                /\ last' = Hist("update", output_id, data, "404", FALSE)
           ELSE /\ upd' = [pc |-> "merge", i |-> i, id |-> output_id, data |-> data,
                           bound |-> TRUE, rec |-> NoData]
                /\ last' = Hist("upd_find", output_id, data, "ok", FALSE)
    /\ UNCHANGED <<outputs, inputs, sensor_values, outputs_file, inputs_file, now, ctl, ev,
                   sim, disk, sensors_file, view>>

\* line 215: output.update(data)
UpdMerge ==
    /\ upd.pc = "merge"
    /\ LET pc == IF "mode" \in DOMAIN upd.data THEN "reset" ELSE "save"
       IN  IF upd.bound
           THEN /\ outputs' = [outputs EXCEPT ![upd.i] = Merge(@, upd.data)]
                /\ upd' = [upd EXCEPT !.pc = pc]
           ELSE /\ outputs' = outputs
                /\ upd' = [upd EXCEPT !.pc = pc, !.rec = Merge(@, upd.data)]
    /\ last' = Hist("upd_merge", upd.id, upd.data, "ok", FALSE)
    /\ UNCHANGED <<inputs, sensor_values, outputs_file, inputs_file, now, ctl, ev, requests,
                   sim, disk, sensors_file, view>>

\* lines 216-217: output['lastToggle'] = time.time()
UpdReset ==
    /\ upd.pc = "reset"
    /\ IF upd.bound
       THEN /\ outputs' = [outputs EXCEPT ![upd.i].lastToggle = now]
            /\ upd' = [upd EXCEPT !.pc = "save"]
       ELSE /\ outputs' = outputs
            /\ upd' = [upd EXCEPT !.pc = "save", !.rec.lastToggle = now]
    /\ last' = Hist("upd_reset", upd.id, upd.data, "ok", FALSE)
    /\ UNCHANGED <<inputs, sensor_values, outputs_file, inputs_file, now, ctl, ev, requests,
                   sim, disk, sensors_file, view>>

\* lines 218-219: save_outputs() dumps the list `outputs` names now, and the
\* handler answers with its record.
UpdSave ==
    /\ upd.pc = "save"
    /\ outputs_file' = SaveOutputs(outputs)
    /\ upd' = NoUpdate
    /\ last' = Hist("upd_return", upd.id, upd.data, "ok", TRUE)
    /\ UNCHANGED <<outputs, inputs, sensor_values, inputs_file, now, ctl, ev, requests,
                   sim, disk, sensors_file, view>>

UpdBegin == \E output_id \in RequestIds, data \in ConcPayloads : UpdFind(output_id, data)

\* control_logic and one update_output call, both statement by statement.
NextAtomic ==
    \/ TickApi \/ EvBegin \/ EvCheck \/ EvBranch \/ EvWrite \/ EvCompare \/ EvSave
    \/ UpdBegin \/ UpdMerge \/ UpdReset \/ UpdSave

SpecAtomic == Init /\ [][NextAtomic]_vars

\* update_output statement by statement, interleaved with GET /api/outputs.
NextLost == TickApi \/ UpdBegin \/ UpdMerge \/ UpdReset \/ UpdSave \/ GetOutputs

SpecLost == Init /\ [][NextLost]_vars

(***************************************************************************)
(* Writes of outputs.json that fail.  save_outputs catches the exception   *)
(* of open(), so the file keeps its contents and the caller goes on.       *)
(***************************************************************************)
\* outputs.json stops being writable, or is writable again.
DiskFails ==
    /\ disk = "ok"
    /\ disk' = "readonly"
    /\ UNCHANGED <<outputs, inputs, sensor_values, outputs_file, inputs_file, now, ctl, ev,
                   requests, upd, sim, sensors_file, view, last>>

DiskRecovers ==
    /\ disk = "readonly"
    /\ disk' = "ok"
    /\ UNCHANGED <<outputs, inputs, sensor_values, outputs_file, inputs_file, now, ctl, ev,
                   requests, upd, sim, sensors_file, view, last>>

\* GET /api/status, lines 262-272: load_sensors, load_inputs, load_outputs.
GetStatus ==
    /\ sensor_values' = sensors_file
    /\ inputs' = LoadInputs(inputs_file)
    /\ outputs' = outputs_file
    /\ upd' = Unbound(upd)
    /\ last' = Hist("get_status", 0, NoData, "ok", FALSE)
    /\ UNCHANGED <<outputs_file, inputs_file, now, ctl, ev, requests, sim, disk,
                   sensors_file, view>>

NextPersist ==
    \/ TickApi \/ EvaluatePass \/ UpdateConc \/ ToggleConc \/ OverrideConc
    \/ GetOutputs \/ GetStatus \/ DiskFails \/ DiskRecovers

SpecPersist == Init /\ [][NextPersist]_vars

(***************************************************************************)
(* sensor_simulator statement by statement, interleaved with control_logic *)
(* and GET /api/sensors.  Where the simulator runs, sensor values and      *)
(* thresholds are fixed-point numbers counted in hundredths, the random    *)
(* increments being drawn from a few values of their range.                *)
(***************************************************************************)
Fixed(units, hundredths) == units * 100 + hundredths

\* The clamp without its lower limit: min(hi, v).
ClampAbove(lo, hi, v) == IF hi < v THEN hi ELSE v

\* max(lo, min(hi, v)), lines 183-186
Clamp(lo, hi, v) ==
    LET m == IF hi < v THEN hi ELSE v
    IN  IF lo > m THEN lo ELSE m

\* (random.random() - 0.5) * 0.5 lies in [-0.25, 0.25)
TemperatureSteps == {0 - Fixed(0, 25), 0, Fixed(0, 24)}

\* (random.random() - 0.5) * 1 lies in [-0.5, 0.5)
HumiditySteps == {0 - Fixed(0, 50), Fixed(0, 49)}

\* lines 183-184
SimTemperature(d) ==
    /\ sim.pc = "sleep"
    /\ sim.rounds < MaxRounds
    /\ sensor_values' = [sensor_values EXCEPT
                            !.temperature = Clamp(Fixed(15, 0), Fixed(35, 0), @ + d)]
    /\ sim' = [sim EXCEPT !.pc = "humidity"]
    /\ last' = Hist("sim_temperature", 0, NoData, "ok", FALSE)
    /\ UNCHANGED <<outputs, inputs, outputs_file, inputs_file, now, ctl, ev, requests, upd,
                   disk, sensors_file, view>>

\* lines 185-186
SimHumidity(d) ==
    /\ sim.pc = "humidity"
    /\ sensor_values' = [sensor_values EXCEPT
                            !.humidity = Clamp(Fixed(20, 0), Fixed(80, 0), @ + d)]
    /\ sim' = [sim EXCEPT !.pc = "save"]
    /\ last' = Hist("sim_humidity", 0, NoData, "ok", FALSE)
    /\ UNCHANGED <<outputs, inputs, outputs_file, inputs_file, now, ctl, ev, requests, upd,
                   disk, sensors_file, view>>

\* lines 187-188: save_sensors(), then the sleep.
SimSave ==
    /\ sim.pc = "save"
    /\ sensors_file' = sensor_values
    /\ sim' = [pc |-> "sleep", rounds |-> sim.rounds + 1]
    /\ last' = Hist("sim_save", 0, NoData, "ok", TRUE)
    /\ UNCHANGED <<outputs, inputs, sensor_values, outputs_file, inputs_file, now, ctl, ev,
                   requests, upd, disk, view>>

\* GET /api/sensors, lines 257-260: load_sensors assigns the global.
GetSensors ==
    /\ sensor_values' = sensors_file
    /\ last' = Hist("get_sensors", 0, NoData, "ok", FALSE)
    /\ UNCHANGED <<outputs, inputs, outputs_file, inputs_file, now, ctl, ev, requests, upd,
                   sim, disk, sensors_file, view>>

SimTemp == \E d \in TemperatureSteps : SimTemperature(d)
SimHum == \E d \in HumiditySteps : SimHumidity(d)

\* Every output in sensor mode on the temperature channel with the same
\* threshold, which is the temperature at start-up; the statuses are free.
InitSensor ==
    /\ sensor_values = [temperature |-> Fixed(22, 0), humidity |-> Fixed(45, 0)]
    /\ \E action \in {"on", "off"} :
          \E status \in [OutputIds -> BOOLEAN] :
             outputs = [i \in OutputIds |->
                           Merge(Merge(DefaultOutput(i, T0),
                                       Sensor("temperature", Fixed(22, 0), action)),
                                 [status |-> status[i]])]
    /\ inputs = DefaultInputs
    /\ outputs_file = outputs
    /\ inputs_file = SaveInputs(inputs)
    /\ now = T0
    /\ ctl = "running"
    /\ ev = Idle
    /\ requests = 0
    /\ upd = NoUpdate
    /\ sim = NoSim
    /\ disk = "ok"
    /\ sensors_file = sensor_values
    /\ view = NoView
    /\ last = [NoHist EXCEPT !.pre = outputs, !.sv = sensor_values]

NextSensor ==
    \/ EvBegin \/ EvCheck \/ EvBranch \/ EvWrite \/ EvCompare \/ EvSave
    \/ SimTemp \/ SimHum \/ SimSave \/ GetSensors

SpecSensor == InitSensor /\ [][NextSensor]_vars

(***************************************************************************)
(* sensor_simulator alone, started on whatever sensors.json held: values   *)
(* below, at, inside and above the limits of either channel.               *)
(***************************************************************************)
StoredTemperatures ==
    {Fixed(10, 0), Fixed(15, 0), Fixed(15, 10), Fixed(22, 0), Fixed(34, 90), Fixed(35, 0),
     Fixed(50, 0)}

StoredHumidities ==
    {Fixed(0, 0), Fixed(20, 0), Fixed(20, 30), Fixed(45, 0), Fixed(79, 60), Fixed(80, 0),
     Fixed(95, 0)}

InitSim ==
    /\ sensor_values \in [temperature : StoredTemperatures, humidity : StoredHumidities]
    /\ outputs = DefaultOutputs(T0)
    /\ inputs = DefaultInputs
    /\ outputs_file = outputs
    /\ inputs_file = SaveInputs(inputs)
    /\ now = T0
    /\ ctl = "running"
    /\ ev = Idle
    /\ requests = 0
    /\ upd = NoUpdate
    /\ sim = NoSim
    /\ disk = "ok"
    /\ sensors_file = sensor_values
    /\ view = NoView
    /\ last = [NoHist EXCEPT !.sv = sensor_values]

NextSim == SimTemp \/ SimHum \/ SimSave

SpecSim == InitSim /\ [][NextSim]_vars

(***************************************************************************)
(* The inputs: inputs.json as the process finds it at start-up (any value  *)
(* of eight bits scaled to the number of inputs, that is two bits more     *)
(* than there are inputs; the names complete or one short), the load at    *)
(* start-up, and the requests on the inputs.                               *)
(***************************************************************************)
StoredInputValues == 0..(Pow2(NumInputs + 2) - 1)

StoredInputNames ==
    { [k \in 1..NumInputs |-> <<"Input", k>>], [k \in 1..(NumInputs - 1) |-> <<"Sw", k>>] }

\* GET /api/inputs, lines 242-245
GetInputs ==
    /\ inputs' = LoadInputs(inputs_file)
    /\ last' = Hist("get_inputs", 0, NoData, "ok", FALSE)
    /\ UNCHANGED <<outputs, sensor_values, outputs_file, inputs_file, now, ctl, ev, requests,
                   upd, sim, disk, sensors_file, view>>

InputBodies == InputPayloads \cup { [status |-> FALSE] }

InputPut ==
    \E input_id \in (1..NumInputs) \cup UnknownIds, data \in InputBodies :
        UpdateInput(input_id, data)

InitInputs ==
    /\ inputs_file \in [value : StoredInputValues, names : StoredInputNames]
    /\ inputs = LoadInputs(inputs_file)
    /\ outputs = DefaultOutputs(T0)
    /\ sensor_values = DefaultSensors
    /\ outputs_file = outputs
    /\ now = T0
    /\ ctl = "running"
    /\ ev = Idle
    /\ requests = 0
    /\ upd = NoUpdate
    /\ sim = NoSim
    /\ disk = "ok"
    /\ sensors_file = sensor_values
    /\ view = NoView
    /\ last = [NoHist EXCEPT !.pin = inputs]

NextInputs == InputPut \/ GetInputs

SpecInputs == InitInputs /\ [][NextInputs]_vars

(***************************************************************************)
(* Runs of passes at irregular times over one store, every output OFF at   *)
(* start-up: periodic outputs, a schedule, and a schedule whose program    *)
(* has no offTime, as update_output stores it when it is sent.             *)
(***************************************************************************)
PhaseFamily ==
    { Periodic(60, 60, T0), Periodic(30, 90, T0 - 100),
      Scheduled(<<Program(1, Str(0, 8, 0, 0), Str(1, 8, 0, 0))>>),
      Scheduled(<<[number |-> 1, onTime |-> Str(0, 8, 0, 0)]>>) }

InitPhase ==
    /\ \E cfg \in StoredOutputs(PhaseFamily) :
          outputs = [i \in OutputIds |->
                        [cfg[i] EXCEPT !.id = i, !.name = <<"Output", i>>, !.status = FALSE]]
    /\ inputs = DefaultInputs
    /\ sensor_values = DefaultSensors
    /\ outputs_file = outputs
    /\ inputs_file = SaveInputs(inputs)
    /\ now = T0
    /\ ctl = "running"
    /\ ev = Idle
    /\ requests = 0
    /\ upd = NoUpdate
    /\ sim = NoSim
    /\ disk = "ok"
    /\ sensors_file = sensor_values
    /\ view = NoView
    /\ last = [NoHist EXCEPT !.pre = outputs]

NextPhase == Tick \/ EvaluatePass

SpecPhase == InitPhase /\ [][NextPhase]_vars

(***************************************************************************)
(* Overridden outputs in the three automatic modes, each with a forced     *)
(* status of either value, and the requests that release or set the        *)
(* override.                                                               *)
(***************************************************************************)
ReleaseFamily ==
    { Overridden(Periodic(60, 60, T0)),
      Overridden(Scheduled(<<Program(1, Str(0, 8, 0, 0), Str(1, 8, 0, 0))>>)),
      Overridden(Sensor("temperature", 25, "on")) }

InitRelease ==
    /\ \E cfg \in StoredOutputs(ReleaseFamily), st \in [OutputIds -> BOOLEAN] :
          outputs = [i \in OutputIds |->
                        [cfg[i] EXCEPT !.id = i, !.name = <<"Output", i>>, !.status = st[i]]]
    /\ inputs = DefaultInputs
    /\ sensor_values = DefaultSensors
    /\ outputs_file = outputs
    /\ inputs_file = SaveInputs(inputs)
    /\ now = T0
    /\ ctl = "running"
    /\ ev = Idle
    /\ requests = 0
    /\ upd = NoUpdate
    /\ sim = NoSim
    /\ disk = "ok"
    /\ sensors_file = sensor_values
    /\ view = NoView
    /\ last = [NoHist EXCEPT !.pre = outputs]

NextRelease == TickApi \/ EvaluatePass \/ OverrideConc

SpecRelease == InitRelease /\ [][NextRelease]_vars

(***************************************************************************)
(* Whole passes and read requests, one after the other, every save         *)
(* succeeding.                                                             *)
(***************************************************************************)
NextReload == Tick \/ EvaluatePass \/ GetOutputs \/ GetStatus

SpecReload == InitEval /\ [][NextReload]_vars

(***************************************************************************)
(* control_logic running for ever over periodic outputs of 60 s ON and     *)
(* 60 s OFF.  Between two passes the clock moves on by at most 60 s; it is *)
(* kept modulo the cycle, on which alone the periodic rule depends.  The   *)
(* first output is a manual one or one with a cycle of 0 s.                *)
(***************************************************************************)
LivePeriodic == Periodic(60, 60, T0)

LiveCycle == LivePeriodic.periodicConfig.onDuration + LivePeriodic.periodicConfig.offDuration

\* The seconds from one pass to the next.
LiveSteps == {20, 30, LivePeriodic.periodicConfig.onDuration}

\* time.sleep(1), line 177, and whatever delays the thread: time passes
\* between two passes, and goes on passing when the thread has ended.
LiveTick ==
    /\ last.op = "evaluate" \/ ctl = "dead"
    /\ \E d \in LiveSteps : now' = T0 + ((now - T0 + d) % LiveCycle)
    /\ last' = Hist("tick", 0, NoData, "ok", FALSE)
    /\ UNCHANGED <<outputs, inputs, sensor_values, outputs_file, inputs_file, ctl, ev,
                   requests, upd, sim, disk, sensors_file, view>>

InitLive ==
    /\ \E first \in {[mode |-> "manual"], Periodic(0, 0, T0)}, st \in [OutputIds -> BOOLEAN] :
          outputs = [i \in OutputIds |->
                        [Merge(DefaultOutput(i, T0), IF i = 1 THEN first ELSE LivePeriodic)
                            EXCEPT !.status = st[i]]]
    /\ inputs = DefaultInputs
    /\ sensor_values = DefaultSensors
    /\ outputs_file = outputs
    /\ inputs_file = SaveInputs(inputs)
    /\ now = T0
    /\ ctl = "running"
    /\ ev = Idle
    /\ requests = 0
    /\ upd = NoUpdate
    /\ sim = NoSim
    /\ disk = "ok"
    /\ sensors_file = sensor_values
    /\ view = NoView
    /\ last = [NoHist EXCEPT !.pre = outputs]

NextLive == LiveTick \/ EvaluatePass

\* The thread is scheduled again and again, and time passes.
SpecLive == InitLive /\ [][NextLive]_vars /\ WF_vars(EvaluatePass) /\ WF_vars(LiveTick)

NextConc ==
    \/ TickApi \/ EvBegin \/ EvCheck \/ EvBranch \/ EvWrite \/ EvCompare \/ EvSave
    \/ UpdateConc \/ ToggleConc \/ OverrideConc

SpecConc == Init /\ [][NextConc]_vars

(***************************************************************************)
(* Properties.                                                             *)
(***************************************************************************)
\* The pass that made the last step got as far as output i.
Reached(i) == last.op = "evaluate" /\ (last.ret = "ok" \/ i < last.id)

\* What the pass that made the last step computes for record o, when the
\* evaluation of o raises nothing.
RuleOf(o) == EvalOutput(o, last.t, FormatHHMM(last.t), last.sv)

\* C1: every pass leaves the status of an output whose manualOverride is true
\* as it was, and leaves the flag set, so that any number of passes in a row
\* do; whatever the mode, the configuration, the clock and the sensor values.
OverridePrecedence ==
    last.op = "evaluate" =>
        \A i \in OutputIds :
            last.pre[i].manualOverride =>
                outputs[i].status = last.pre[i].status /\ outputs[i].manualOverride

\* A pass has run over an overridden periodic output whose rule gives the
\* other status.
OverridePrecedenceWitness ==
    /\ last.op = "evaluate"
    /\ \E i \in OutputIds :
          LET o == last.pre[i]
              r == ModeStatus(o, last.t, FormatHHMM(last.t), last.sv)
          IN  o.manualOverride /\ o.mode = "periodic" /\ ~r.raised /\ r.status # o.status

\* C2: the evaluator never writes the status of an output whose
\* manualOverride is true at the moment of the write.
EvaluatorRespectsOverride ==
    last.op = "ev_write" => ~last.pre[last.id].manualOverride

\* (t - lastToggle) mod cycle < onDuration, with the non-negative modulus.
PeriodicRuleOf(o, t) ==
    ((t - o.lastToggle) % (o.periodicConfig.onDuration + o.periodicConfig.offDuration))
        < o.periodicConfig.onDuration

PeriodicCase(o) ==
    /\ ~o.manualOverride /\ o.mode = "periodic"
    /\ o.periodicConfig.onDuration + o.periodicConfig.offDuration > 0

\* C3: after a pass at time t, a non-overridden periodic output with a cycle
\* longer than 0 is ON exactly when (t - lastToggle) mod cycle < onDuration.
PeriodicRule ==
    last.op = "evaluate" =>
        \A i \in OutputIds :
            PeriodicCase(last.pre[i]) => (outputs[i].status <=> PeriodicRuleOf(last.pre[i], last.t))

\* The periodic rule holds of every output the pass got to.
PeriodicRuleWhereReached ==
    \A i \in OutputIds :
        Reached(i) /\ PeriodicCase(last.pre[i]) =>
            (outputs[i].status <=> PeriodicRuleOf(last.pre[i], last.t))

\* Some program has onTime <= nowStr < offTime.
ScheduledRuleOf(o, tstr) ==
    \E k \in 1..Len(o.scheduledPrograms) :
        /\ StrLe(o.scheduledPrograms[k].onTime, tstr)
        /\ StrLt(tstr, o.scheduledPrograms[k].offTime)

ScheduledCase(o) == ~o.manualOverride /\ o.mode = "scheduled"

\* C4: after a pass at clock string nowStr, a non-overridden scheduled output
\* is ON exactly when some program has onTime <= nowStr < offTime (so it is
\* OFF when the list is empty or holds only programs with offTime <= onTime).
ScheduledRule ==
    last.op = "evaluate" =>
        \A i \in OutputIds :
            ScheduledCase(last.pre[i]) =>
                (outputs[i].status <=> ScheduledRuleOf(last.pre[i], FormatHHMM(last.t)))

\* The minute of the day an "HH:MM" string names, and the one of the clock.
Minutes(s) == ((s[1] - 48) * 10 + (s[2] - 48)) * 60 + (s[4] - 48) * 10 + (s[5] - 48)
MinuteOfDay(t) == (t \div 60) % 1440

\* The scheduled rule, as times of day, holds of every output the pass got to.
ScheduledRuleWhereReached ==
    \A i \in OutputIds :
        Reached(i) /\ ScheduledCase(last.pre[i]) =>
            (outputs[i].status <=>
                \E k \in 1..Len(last.pre[i].scheduledPrograms) :
                    LET program == last.pre[i].scheduledPrograms[k]
                    IN  /\ Minutes(program.onTime) <= MinuteOfDay(last.t)
                        /\ MinuteOfDay(last.t) < Minutes(program.offTime))

SensorCase(o, sv) ==
    /\ ~o.manualOverride /\ o.mode = "sensor"
    /\ o.sensorConfig.type \in DOMAIN sv
    /\ o.sensorConfig.action \in {"on", "off"}

SensorRuleOf(o, sv) ==
    IF o.sensorConfig.action = "on"
    THEN sv[o.sensorConfig.type] < o.sensorConfig.threshold
    ELSE ~(sv[o.sensorConfig.type] < o.sensorConfig.threshold)

\* C5: after a pass, a non-overridden sensor output whose channel is in the
\* snapshot is ON exactly when value < threshold for action "on", and exactly
\* when not (value < threshold) for action "off".
SensorRule ==
    last.op = "evaluate" =>
        \A i \in OutputIds :
            SensorCase(last.pre[i], last.sv) =>
                (outputs[i].status <=> SensorRuleOf(last.pre[i], last.sv))

\* The sensor rule holds of every output the pass got to.
SensorRuleWhereReached ==
    \A i \in OutputIds :
        Reached(i) /\ SensorCase(last.pre[i], last.sv) =>
            (outputs[i].status <=> SensorRuleOf(last.pre[i], last.sv))

\* Output j has been evaluated by the pass that made the last step: it has the
\* status its rule gives, or its old status when its own evaluation fails.
Evaluated(j) ==
    outputs[j].status = (IF RuleOf(last.pre[j]).raised THEN last.pre[j].status
                         ELSE RuleOf(last.pre[j]).status)

MissingChannel(o, sv) ==
    ~o.manualOverride /\ o.mode = "sensor" /\ o.sensorConfig.type \notin DOMAIN sv

\* C6: a pass over a non-overridden sensor output whose channel is absent from
\* the snapshot leaves that output's status as it was, evaluates every other
\* output, and leaves the evaluator running for the later passes.
MissingChannelIsolated ==
    (last.op = "evaluate" /\ \E k \in OutputIds : MissingChannel(last.pre[k], last.sv)) =>
        /\ \A k \in OutputIds :
              MissingChannel(last.pre[k], last.sv) => outputs[k].status = last.pre[k].status
        /\ \A j \in OutputIds : Evaluated(j)
        /\ ctl = "running"

ZeroCycle(o) ==
    /\ ~o.manualOverride /\ o.mode = "periodic"
    /\ o.periodicConfig.onDuration + o.periodicConfig.offDuration = 0

\* C7: a pass over a non-overridden periodic output with onDuration +
\* offDuration = 0 holds that output's status, evaluates every other output,
\* and leaves the evaluator running for the later passes.
ZeroCycleIsolated ==
    (last.op = "evaluate" /\ \E k \in OutputIds : ZeroCycle(last.pre[k])) =>
        /\ \A k \in OutputIds : ZeroCycle(last.pre[k]) => outputs[k].status = last.pre[k].status
        /\ \A j \in OutputIds : Evaluated(j)
        /\ ctl = "running"

\* C8: a successful update whose fields include mode sets lastToggle to the
\* time of the update, also when the mode is the old one and when the fields
\* carry a lastToggle; one without mode sets lastToggle only when it is given.
ModeUpdateResetsTimer ==
    (last.op = "update" /\ last.ret = "ok") =>
        LET i == FindOutput(last.pre, last.id)
        IN  /\ "mode" \in DOMAIN last.data => outputs[i].lastToggle = last.t
            /\ ("mode" \notin DOMAIN last.data /\ "lastToggle" \notin DOMAIN last.data) =>
                   outputs[i].lastToggle = last.pre[i].lastToggle
            /\ ("mode" \notin DOMAIN last.data /\ "lastToggle" \in DOMAIN last.data) =>
                   outputs[i].lastToggle = last.data.lastToggle

\* An update to the mode the output already has, carrying its own lastToggle,
\* at a time later than the anchor it replaces.
ModeUpdateResetsTimerWitness ==
    /\ last.op = "update" /\ last.ret = "ok"
    /\ last.data = [mode |-> "periodic", lastToggle |-> 0]
    /\ last.pre[last.id].mode = "periodic"
    /\ last.pre[last.id].lastToggle < last.t
    /\ outputs[last.id].lastToggle = last.t

\* C9 as claimed: in every step in which an output's mode changes, its
\* lastToggle is set to the time of that step.
ModeChangeResetsTimer ==
    \A i \in OutputIds :
        outputs[i].mode # last.pre[i].mode => outputs[i].lastToggle = last.t

\* C9 as amended: a step that changes an output's mode is an update, which
\* sets lastToggle to its time, or a toggle, which sets the mode to manual and
\* leaves lastToggle as it was; no override-toggle and no pass changes a mode.
ModeChangeResetsTimerOnUpdate ==
    \A i \in OutputIds :
        outputs[i].mode # last.pre[i].mode =>
            \/ last.op = "update" /\ outputs[i].lastToggle = last.t
            \/ /\ last.op = "toggle" /\ outputs[i].mode = "manual"
               /\ outputs[i].lastToggle = last.pre[i].lastToggle

\* A toggle has taken a periodic output to manual after its anchor was set.
ModeChangeResetsTimerWitness ==
    /\ last.op = "toggle" /\ last.ret = "ok"
    /\ last.pre[last.id].mode = "periodic" /\ outputs[last.id].mode = "manual"
    /\ outputs[last.id].lastToggle # last.t

\* C10: update, toggle and override-toggle with an id no output carries, and
\* an input update with an id no input carries, return NotFound, change no
\* output and no input, and save nothing.
UnknownIdIsNoOp ==
    LET unknown ==
            \/ /\ last.op \in {"update", "toggle", "override"}
               /\ \A i \in 1..Len(last.pre) : last.pre[i].id # last.id
            \/ /\ last.op = "update_input"
               /\ \A i \in 1..Len(last.pin) : last.pin[i].id # last.id
    IN  unknown =>
            /\ last.ret = "notfound"
            /\ outputs = last.pre /\ inputs = last.pin
            /\ ~last.saved

\* An update of output 999 that would have set the mode.
UnknownIdIsNoOpWitness ==
    /\ last.op = "update" /\ last.id \in UnknownIds /\ last.ret = "notfound"
    /\ "mode" \in DOMAIN last.data

\* C11: the store holds exactly the outputs created at start-up, the record
\* at position i carrying id i, whatever requests and passes have run.
OutputIdentityFixed ==
    /\ Len(outputs) = NumOutputs
    /\ \A i \in OutputIds : outputs[i].id = i

\* A string is "HH:MM": two digits, a colon, two digits, at most 23:59.
IsHHMM(s) ==
    /\ Len(s) = 5 /\ s[3] = 58
    /\ \A k \in {1, 2, 4, 5} : s[k] \in 48..57
    /\ (s[1] - 48) * 10 + (s[2] - 48) <= 23
    /\ (s[4] - 48) * 10 + (s[5] - 48) <= 59

WellFormedProgram(program) ==
    /\ {"onTime", "offTime"} \subseteq DOMAIN program
    /\ IsHHMM(program.onTime) /\ IsHHMM(program.offTime)

MalformedSchedule(data) ==
    /\ "scheduledPrograms" \in DOMAIN data
    /\ \E k \in 1..Len(data.scheduledPrograms) : ~WellFormedProgram(data.scheduledPrograms[k])

\* C19: an update whose scheduledPrograms holds a malformed entry is rejected
\* and changes nothing, so every stored program has a well-formed onTime and
\* offTime.
MalformedScheduleRejected ==
    /\ (last.op = "update" /\ MalformedSchedule(last.data)) =>
           last.ret # "ok" /\ outputs = last.pre /\ ~last.saved
    /\ \A i \in OutputIds :
          \A k \in 1..Len(outputs[i].scheduledPrograms) :
              WellFormedProgram(outputs[i].scheduledPrograms[k])

\* C20: every output's scheduledPrograms has at most 20 entries.
ScheduleSizeBound ==
    \A i \in OutputIds : Len(outputs[i].scheduledPrograms) <= MaxPrograms

\* The list the page's Add Program stores has at most 20 entries, also when
\* the page's copy of the list is stale.
PageAddKeepsBound ==
    last.op = "add_program" =>
        \A i \in OutputIds :
            outputs[i].id = last.id => Len(outputs[i].scheduledPrograms) <= MaxPrograms

\* C12: the evaluator never computes a periodic status from a record whose
\* mode an update has already set while the same update has not yet reset
\* its lastToggle.
UpdateAtomicToEvaluator ==
    last.op = "ev_compute" =>
        ~ /\ last.upd.pc = "reset"
          /\ last.upd.bound
          /\ last.upd.i = last.id
          /\ last.pre[last.id].mode = "periodic"

\* The fields of the body of an update are in the record.
Applied(data, o) == \A k \in DOMAIN data : k \in DOMAIN o /\ o[k] = data[k]

\* C13: when an update returns success, the fields it was sent are in the
\* in-memory record of that output and in the persisted one.
NoLostUpdate ==
    last.op = "upd_return" =>
        /\ Applied(last.data, outputs[last.upd.i])
        /\ Applied(last.data, outputs_file[last.upd.i])

\* C14: a read request (get outputs, get status) leaves every in-memory
\* output as it was, also when the save of an earlier write has failed.
ReadKeepsMemory ==
    last.op \in {"get_outputs", "get_status"} => outputs = last.pre

\* C15: two outputs in sensor mode that are not overridden and have the same
\* sensorConfig have the same status when a pass has ended.
ConsistentSensorSnapshot ==
    (last.op = "evaluate" /\ last.ret = "ok") =>
        \A i, j \in OutputIds :
            ( /\ outputs[i].mode = "sensor" /\ outputs[j].mode = "sensor"
              /\ ~outputs[i].manualOverride /\ ~outputs[j].manualOverride
              /\ outputs[i].sensorConfig = outputs[j].sensorConfig )
            => outputs[i].status = outputs[j].status

\* C16: only the steps of sensor_simulator change the in-memory sensor
\* snapshot.
SensorSingleWriter ==
    sensor_values # last.sv => last.op \in {"sim_temperature", "sim_humidity"}

UnknownMode(o) ==
    ~o.manualOverride /\ o.mode \notin {"manual", "periodic", "scheduled", "sensor"}

\* C17: a pass leaves a non-overridden output of unknown mode as it was,
\* raises nothing at it, saves only if the status of another output changed,
\* and evaluates the outputs after it up to the first one that raises.
UnknownModeSafe ==
    last.op = "evaluate" =>
        \A i \in OutputIds :
            UnknownMode(last.pre[i]) =>
                /\ outputs[i] = last.pre[i]
                /\ last.ret = "raised" => last.id # i
                /\ last.saved =>
                       \E j \in OutputIds \ {i} : outputs[j].status # last.pre[j].status
                /\ \A j \in OutputIds :
                       (j > i /\ \A k \in 1..(j - 1) : ~RuleOf(last.pre[k]).raised)
                           => Evaluated(j)

\* A pass has run over an output of unknown mode, followed by a sensor output
\* whose status the pass has changed.
UnknownModeSafeWitness ==
    /\ last.op = "evaluate"
    /\ \E i, j \in OutputIds :
          /\ i < j
          /\ UnknownMode(last.pre[i]) /\ last.pre[i].status
          /\ last.pre[j].mode = "sensor"
          /\ outputs[j].status # last.pre[j].status

\* C18: a pass leaves the status of every manual-mode output as it was, and a
\* pass over a store of manual-mode outputs only changes nothing, raises
\* nothing and saves nothing.
ManualNeverChanged ==
    last.op = "evaluate" =>
        /\ \A i \in OutputIds :
              last.pre[i].mode = "manual" => outputs[i].status = last.pre[i].status
        /\ (\A i \in OutputIds : last.pre[i].mode = "manual") =>
              /\ outputs = last.pre
              /\ last.ret = "ok"
              /\ ~last.saved
              /\ outputs_file = outputs

\* A pass has run over a store of manual-mode outputs only, one of them ON
\* and not overridden.
ManualNeverChangedWitness ==
    /\ last.op = "evaluate"
    /\ \A i \in OutputIds : last.pre[i].mode = "manual"
    /\ \E i \in OutputIds : ~last.pre[i].manualOverride /\ last.pre[i].status

TemperatureInRange(sv) == Fixed(15, 0) <= sv.temperature /\ sv.temperature <= Fixed(35, 0)
HumidityInRange(sv) == Fixed(20, 0) <= sv.humidity /\ sv.humidity <= Fixed(80, 0)

\* C21: after the temperature statement of sensor_simulator the temperature
\* is within [15, 35], after its humidity statement the humidity is within
\* [20, 80] as well, and a completed round has saved values within both
\* ranges; whatever the values before and whatever the increments.
SensorsStayInRange ==
    /\ last.op = "sim_temperature" => TemperatureInRange(sensor_values)
    /\ last.op = "sim_humidity" =>
          TemperatureInRange(sensor_values) /\ HumidityInRange(sensor_values)
    /\ last.op = "sim_save" =>
          /\ TemperatureInRange(sensor_values) /\ HumidityInRange(sensor_values)
          /\ sensors_file = sensor_values

\* A round has ended that started below the temperature range and above the
\* humidity range.
SensorsStayInRangeWitness ==
    /\ last.op = "sim_save"
    /\ sim.rounds = 1
    /\ sensor_values.temperature = Fixed(15, 0)
    /\ sensor_values.humidity = Fixed(80, 0)

\* Bit i (counted from 0) of a stored value.
Bit(value, i) == (value \div Pow2(i)) % 2 = 1

\* C22: saving the inputs and loading them again gives every input its
\* status, name and id back; the saved value has bit i set exactly when
\* input i + 1 is ON and no higher bit; and what a load makes of a stored
\* value does not depend on the bits above those of the inputs.
InputRoundTrip ==
    LET saved == SaveInputs(inputs)
        loaded == LoadInputs(saved)
    IN  /\ Len(loaded) = Len(inputs)
        /\ \A i \in 1..Len(inputs) :
              /\ loaded[i].status = inputs[i].status
              /\ loaded[i].name = inputs[i].name
              /\ loaded[i].id = inputs[i].id
              /\ Bit(saved.value, i - 1) <=> inputs[i].status
        /\ saved.value \in 0..(Pow2(NumInputs) - 1)
        /\ last.op \in {"init", "get_inputs"} =>
              inputs = LoadInputs([inputs_file EXCEPT !.value = @ % Pow2(NumInputs)])

\* A load has read a stored value with a bit set above those of the inputs,
\* the last input ON and the first OFF.
InputRoundTripWitness ==
    /\ last.op = "get_inputs"
    /\ inputs_file.value >= Pow2(NumInputs)
    /\ inputs[NumInputs].status /\ ~inputs[1].status

\* C23: a pass leaves every field of every output other than status, the
\* number of outputs, the sensor snapshot and the inputs as they were.
EvaluationOnlyWritesStatus ==
    last.op = "evaluate" =>
        /\ Len(outputs) = Len(last.pre)
        /\ \A i \in 1..Len(outputs) :
              /\ DOMAIN outputs[i] = DOMAIN last.pre[i]
              /\ \A k \in DOMAIN outputs[i] \ {"status"} : outputs[i][k] = last.pre[i][k]
        /\ sensor_values = last.sv
        /\ inputs = last.pin

\* A pass at a time later than lastToggle has changed the status of a
\* periodic output.
EvaluationOnlyWritesStatusWitness ==
    /\ last.op = "evaluate"
    /\ \E i \in OutputIds :
          /\ last.pre[i].mode = "periodic"
          /\ last.pre[i].lastToggle < last.t
          /\ outputs[i].status # last.pre[i].status

\* The status of some non-overridden output after the pass differs from the
\* one it had before it.
StatusDiffers ==
    \E i \in OutputIds : ~last.pre[i].manualOverride /\ outputs[i].status # last.pre[i].status

\* A pass over the store as it is now, at the time and with the snapshot of
\* the last step.
PassAgain == PassFrom(outputs, 1, FALSE, last.t, FormatHHMM(last.t), last.sv)

\* C24: a pass saves the outputs exactly when the status it computed for some
\* non-overridden output differs from the stored one, and a second pass at
\* the same clock value with the same snapshot changes nothing and does not
\* save.
ChangeDrivesSave ==
    last.op = "evaluate" =>
        /\ last.saved <=> StatusDiffers
        /\ PassAgain.outs = outputs /\ ~PassAgain.modified

\* C24 holds of every pass that runs to its end.
ChangeDrivesSaveWhereCompleted ==
    (last.op = "evaluate" /\ last.ret = "ok") =>
        /\ last.saved <=> StatusDiffers
        /\ PassAgain.outs = outputs /\ ~PassAgain.modified /\ ~PassAgain.raised

\* C25: a successful update sets the fields its body names, changes no other
\* field of that output except lastToggle when the body names mode, removes
\* no field, and leaves every other output as it was.
UpdateFrame ==
    (last.op = "update" /\ last.ret = "ok") =>
        LET i == FindOutput(last.pre, last.id)
            touched == DOMAIN last.data \cup
                           (IF "mode" \in DOMAIN last.data THEN {"lastToggle"} ELSE {})
        IN  /\ Len(outputs) = Len(last.pre)
            /\ DOMAIN last.pre[i] \subseteq DOMAIN outputs[i]
            /\ \A k \in DOMAIN last.pre[i] \ touched : outputs[i][k] = last.pre[i][k]
            /\ \A k \in DOMAIN last.data \ {"lastToggle"} : outputs[i][k] = last.data[k]
            /\ \A j \in 1..Len(outputs) : j # i => outputs[j] = last.pre[j]

\* An update that names neither manualOverride nor mode has been applied to
\* an overridden output.
UpdateFrameWitness ==
    /\ last.op = "update" /\ last.ret = "ok"
    /\ "manualOverride" \notin DOMAIN last.data
    /\ "mode" \notin DOMAIN last.data
    /\ last.pre[FindOutput(last.pre, last.id)].manualOverride

\* The store as it was at start-up in SpecPhase: passes write nothing but
\* status, and every status was OFF.
StartupStore == [i \in 1..Len(outputs) |-> [outputs[i] EXCEPT !.status = FALSE]]

\* The run that makes its first pass over the start-up store at the time of
\* the last step.
FirstPass == PassFrom(StartupStore, 1, FALSE, last.t, FormatHHMM(last.t), last.sv)

\* C26: after a pass at time t, whatever passes came before it, a
\* non-overridden periodic output has the status it has in the run whose
\* first pass is at t.
PeriodicPhaseStable ==
    last.op = "evaluate" =>
        \A i \in OutputIds :
            PeriodicCase(outputs[i]) => outputs[i].status = FirstPass.outs[i].status

\* C26 holds of every pass that runs to its end.
PeriodicPhaseStableWhereCompleted ==
    (last.op = "evaluate" /\ last.ret = "ok") =>
        \A i \in OutputIds :
            PeriodicCase(outputs[i]) => outputs[i].status = FirstPass.outs[i].status

\* An output a toggle has taken: overridden, or in manual mode.
Held(o) == o.manualOverride \/ o.mode = "manual"

\* C27: a successful toggle flips the status, sets manualOverride and sets
\* the mode to manual; a pass leaves the status of an output that is
\* overridden or in manual mode as it was; and an override-toggle changes
\* manualOverride only, so the mode stays manual and the status stays held.
ToggleTakesOwnership ==
    /\ (last.op = "toggle" /\ last.ret = "ok") =>
          LET i == FindOutput(last.pre, last.id)
          IN  /\ outputs[i].status = ~last.pre[i].status
              /\ outputs[i].manualOverride
              /\ outputs[i].mode = "manual"
    /\ last.op = "evaluate" =>
          \A i \in OutputIds : Held(last.pre[i]) => outputs[i] = last.pre[i]
    /\ (last.op = "override" /\ last.ret = "ok") =>
          LET i == FindOutput(last.pre, last.id)
          IN  /\ outputs[i] = [last.pre[i] EXCEPT !.manualOverride = ~@]
              /\ last.pre[i].mode = "manual" => Held(outputs[i])

\* A pass at a time when the periodic rule gives OFF has run over an output
\* that was made periodic and then toggled ON.
ToggleTakesOwnershipWitness ==
    /\ last.op = "evaluate" /\ last.ret = "ok"
    /\ \E i \in OutputIds :
          /\ last.pre[i].mode = "manual" /\ last.pre[i].manualOverride
          /\ last.pre[i].status /\ outputs[i].status
          /\ last.pre[i].lastToggle > T0
          /\ ~PeriodicRuleOf(last.pre[i], last.t)

AutomaticMode(o) == o.mode \in {"periodic", "scheduled", "sensor"}

\* C28: an override-toggle on an overridden output clears manualOverride and
\* changes nothing else, and a completed pass gives every output in an
\* automatic mode whose override is released the status of its mode rule at
\* that pass, whatever status it had.
ReleaseHandsBack ==
    /\ (last.op = "override" /\ last.ret = "ok") =>
          LET i == FindOutput(last.pre, last.id)
          IN  last.pre[i].manualOverride =>
                  outputs[i] = [last.pre[i] EXCEPT !.manualOverride = FALSE]
    /\ (last.op = "evaluate" /\ last.ret = "ok") =>
          \A i \in OutputIds :
              (~last.pre[i].manualOverride /\ AutomaticMode(last.pre[i])) =>
                  /\ last.pre[i].mode = "periodic" =>
                        (outputs[i].status <=> PeriodicRuleOf(last.pre[i], last.t))
                  /\ last.pre[i].mode = "scheduled" =>
                        (outputs[i].status <=> ScheduledRuleOf(last.pre[i], FormatHHMM(last.t)))
                  /\ last.pre[i].mode = "sensor" =>
                        (outputs[i].status <=> SensorRuleOf(last.pre[i], last.sv))

\* A completed pass has changed the status forced on an output whose
\* override was released, while another output is still overridden.
ReleaseHandsBackWitness ==
    /\ last.op = "evaluate" /\ last.ret = "ok"
    /\ \E i, j \in OutputIds :
          /\ ~last.pre[i].manualOverride /\ AutomaticMode(last.pre[i])
          /\ outputs[i].status # last.pre[i].status
          /\ last.pre[j].manualOverride

\* C29: with every save succeeding and no two operations interleaved, the
\* persisted outputs equal the in-memory ones after each completed update,
\* toggle, override-toggle and pass, and a read request leaves the in-memory
\* outputs as they were.
PersistedTracksMemory ==
    /\ (last.op \in {"update", "toggle", "override", "evaluate"} /\ last.ret = "ok") =>
          outputs_file = outputs
    /\ last.op \in {"get_outputs", "get_status"} =>
          outputs = last.pre /\ outputs_file = outputs

\* After every completed update, toggle, override-toggle and pass the
\* persisted outputs equal the in-memory ones.
CompletedWritesPersist ==
    (last.op \in {"update", "toggle", "override", "evaluate"} /\ last.ret = "ok") =>
        outputs_file = outputs

\* C30: every non-overridden periodic output with a cycle longer than 0 is ON
\* again and again and OFF again and again.
PeriodicCyclingLive ==
    \A i \in OutputIds :
        /\ []<>(PeriodicCase(outputs[i]) => outputs[i].status)
        /\ []<>(PeriodicCase(outputs[i]) => ~outputs[i].status)

\* C30 holds of the runs in which control_logic keeps running.
PeriodicCyclingLiveWhileRunning ==
    [](ctl = "running") =>
        \A i \in OutputIds :
            /\ []<>(PeriodicCase(outputs[i]) => outputs[i].status)
            /\ []<>(PeriodicCase(outputs[i]) => ~outputs[i].status)

====
